---- MODULE Spec2Model ----
(***************************************************************************)
(* Model of the article-summarization job pipeline of the AstroBio         *)
(* Navigator server: POST /api/summarize-article, the background           *)
(* processJob task, the in-memory job map summarizationJobs and            *)
(* GET /api/summarize-status/:jobId; and of waitForRateLimit, the rate     *)
(* limiter of the calls to the search endpoint (RateSpec).                 *)
(*                                                                         *)
(* Node.js runs every handler and every continuation of an async function  *)
(* to its next await without interruption, so one action is one such run.  *)
(* Callbacks queued with process.nextTick run before the event loop takes  *)
(* the next I/O event, so every other action waits for an empty queue.     *)
(*                                                                         *)
(* The wall clock is read in milliseconds and does not go back here.  A    *)
(* job id `${Date.now()}-${suffix}` is kept as the pair <<clock, suffix>>   *)
(* (the decimal printing of two naturals joined by '-' is injective).  The *)
(* pages of the web do not change between two fetches; a fetch, a render   *)
(* or the completion service can fail at any call.                         *)
(***************************************************************************)
EXTENDS Integers, Sequences, FiniteSets, TLC

\* ------------------------------------------------------------------------
\* Bounds of the model
\* ------------------------------------------------------------------------
MaxReqs == 2        \* submit requests that arrive
MaxClock == 1       \* largest value Date.now() takes (milliseconds, from 0)
MaxRnd == 1         \* random suffixes 0..MaxRnd-1 stand for 0..99999
MaxCallers == 3     \* calls of waitForRateLimit that are followed
MaxTicks == 4       \* steps of the clock while the rate limiter is followed
MaxText == 8        \* characters of a text given to extractiveSummary
MaxOver == 2        \* characters a text is shorter or longer than the prompt allows
MaxSearches == 1    \* requests to the search and trending endpoints that arrive
MaxKeywords == 2    \* keywords of a trending request
MaxLimit == 21      \* largest limit of a search request
MaxSeconds == 14    \* steps of the clock while the search endpoints are followed

\* ------------------------------------------------------------------------
\* JavaScript values: null, numbers and strings (sequences of characters)
\* ------------------------------------------------------------------------
Null == [k |-> "null"]
Num(n) == [k |-> "num", v |-> n]
Str(s) == [k |-> "str", v |-> s]

IsNull(x) == x.k = "null"

\* JavaScript truthiness of the values above
Truthy(x) ==
    CASE x.k = "null" -> FALSE
      [] x.k = "num" -> x.v # 0
      [] x.k = "str" -> Len(x.v) > 0

\* c repeated n times
Rep(c, n) == [i \in 1..n |-> c]

IsWs(c) == c \in {" ", "\n", "\t"}

\* String.prototype.startsWith
StartsWith(s, p) == Len(s) >= Len(p) /\ SubSeq(s, 1, Len(p)) = p

\* String.prototype.trim
Trim(s) ==
    LET leading == {i \in 1..Len(s) : \A j \in 1..i : IsWs(s[j])}
        trailing == {i \in 1..Len(s) : \A j \in i..Len(s) : IsWs(s[j])}
    IN SubSeq(s, Cardinality(leading) + 1, Len(s) - Cardinality(trailing))

\* text.replace(/\s+/g, ' ') on s[lo..hi]: every run of whitespace becomes
\* one space (the run is replaced where it starts)
RECURSIVE Collapse(_, _, _)
Collapse(s, lo, hi) ==
    IF lo > hi THEN <<>>
    ELSE IF lo = hi
         THEN IF ~IsWs(s[lo]) THEN <<s[lo]>>
              ELSE IF lo > 1 /\ IsWs(s[lo - 1]) THEN <<>> ELSE <<" ">>
    ELSE Collapse(s, lo, (lo + hi) \div 2) \o Collapse(s, (lo + hi) \div 2 + 1, hi)

\* text.replace(/\s+/g, ' ').trim()
Normalize(s) == Trim(Collapse(s, 1, Len(s)))

HTTP == <<"h", "t", "t", "p">>
HTML == <<"h", "t", "m", "l">>

\* String.prototype.includes
Includes(s, p) ==
    \E i \in 1..(Len(s) + 1) :
        i + Len(p) - 1 <= Len(s) /\ SubSeq(s, i, i + Len(p) - 1) = p

\* ------------------------------------------------------------------------
\* Error messages.  A message is an opaque string; an Error whose message
\* is empty prints as its class name.
\* ------------------------------------------------------------------------
MsgNotHtml == "Only web articles (HTML) are supported for summarization."
MsgInsufficient == "Could not extract sufficient text from the article."
MsgInsufficientFast == "Could not extract sufficient text from the article (fast path)."
MsgMissingKey == "Missing OpenRouter API key"
MsgNoSummary == "No summary returned from OpenRouter"
MsgNetwork == "Network Error"
MsgInvalidBody == "Missing or invalid url in request body."
MsgJobNotFound == "Job not found"

\* messages the failure of a request can carry (an AggregateError has none)
NetErrors == {MsgNetwork, ""}

Ok(text) == [ok |-> TRUE, text |-> text]
Fail(msg) == [ok |-> FALSE, msg |-> msg]

\* ------------------------------------------------------------------------
\* The web.  A document is what the parsing libraries report for a markup
\* text: the article Readability finds (or null), the text of each
\* selector cheerio is asked for, and the joined text of the body elements.
\* ------------------------------------------------------------------------
Selectors == {"article", "main", "#content", ".main-content",
              ".post-content", ".entry-content"}

NoSel == [x \in Selectors |-> <<>>]

UrlA == <<"h", "t", "t", "p", ":", "/", "/", "a">>
UrlB == <<"h", "t", "t", "p", "s", ":", "/", "/", "b">>
UrlP == <<"h", "t", "t", "p", ":", "/", "/", "p">>
UrlX == <<"h", "t", "t", "p", "x">>

TypeHtml == <<"t", "e", "x", "t", "/">> \o HTML
TypePdf == <<"a", "p", "p", "l", "i", "c", "a", "t", "i", "o", "n", "/", "p", "d", "f">>

\* the article of page A: four sentences and a tail without a terminator
TextA == <<" ", "A", "a", ".", " ", "\n", "B", "!", " ", "C", "?", "\t", "D", ".">>
         \o Rep("x", 190)
\* what page B shows once its scripts have run: 110 characters
TextB == <<"E", ".", " ">> \o Rep("y", 107)

DocA == [readability |-> [k |-> "article", title |-> <<"T">>, textContent |-> TextA],
         sel |-> [NoSel EXCEPT !["article"] = TextA],
         bodyAll |-> TextA]
DocBStatic == [readability |-> Null, sel |-> NoSel, bodyAll |-> Rep("z", 20)]
DocBRendered == [readability |-> [k |-> "article", title |-> <<>>, textContent |-> TextB],
                 sel |-> [NoSel EXCEPT !["main"] = TextB],
                 bodyAll |-> TextB]

\* the response axios gets for a url when the network delivers one
Responses ==
    [u \in {UrlA, UrlB, UrlP} |->
        CASE u = UrlA -> [contentType |-> TypeHtml, doc |-> DocA, rendered |-> DocA]
          [] u = UrlB -> [contentType |-> TypeHtml, doc |-> DocBStatic,
                          rendered |-> DocBRendered]
          [] u = UrlP -> [contentType |-> TypePdf, doc |-> DocBStatic,
                          rendered |-> DocBStatic]]

\* outcomes of axios.get(url): the response, or a failure (a timeout, a
\* refused connection, a url axios cannot parse)
FetchOutcomes(url) ==
    {[ok |-> FALSE, msg |-> MsgNetwork]}
    \cup (IF url \in DOMAIN Responses THEN {[ok |-> TRUE, msg |-> ""]} ELSE {})

\* outcomes of the headless-browser pass: page.content() is delivered, or
\* launch, navigation or content retrieval fails
RenderOutcomes(url) ==
    {[ok |-> FALSE, msg |-> MsgNetwork]}
    \cup (IF url \in DOMAIN Responses THEN {[ok |-> TRUE, msg |-> ""]} ELSE {})

\* ------------------------------------------------------------------------
\* Text extraction
\* ------------------------------------------------------------------------
MinReadabilityFull == 200
MinReadabilityRendered == 100
MinReadabilityFast == 120
MinSelectorText == 100
MinTextFull == 100
MinTextFast == 120

\* a || b || ... over selector texts: the first non-empty one, else ''
RECURSIVE FirstNonEmpty(_, _)
FirstNonEmpty(doc, names) ==
    IF names = <<>> THEN <<>>
    ELSE IF Len(doc.sel[Head(names)]) > 0 THEN doc.sel[Head(names)]
         ELSE FirstNonEmpty(doc, Tail(names))

\* article && article.textContent && article.textContent.trim().length >= min
ReadabilityAccepts(doc, min) ==
    /\ ~IsNull(doc.readability)
    /\ Len(doc.readability.textContent) > 0
    /\ Len(Trim(doc.readability.textContent)) >= min

\* (article.title ? article.title + '\n\n' : '') + article.textContent,
\* whitespace-normalised
ReadabilityText(doc) ==
    Normalize((IF Len(doc.readability.title) > 0
               THEN doc.readability.title \o <<"\n", "\n">> ELSE <<>>)
              \o doc.readability.textContent)

\* the cheerio fallback: the first non-empty selector text, replaced by the
\* text of all body elements when it is shorter than 100, then normalised
SelectorText(doc, names) ==
    LET picked == FirstNonEmpty(doc, names)
    IN Normalize(IF Len(picked) = 0 \/ Len(Trim(picked)) < MinSelectorText
                 THEN doc.bodyAll ELSE picked)

\* fetchArticleTextFast on the response of its axios.get
extractFast(response) ==
    IF ~Includes(response.contentType, HTML) THEN Fail(MsgNotHtml)
    ELSE LET doc == response.doc
             text == SelectorText(doc, <<"article", "main", "#content",
                                         ".post-content", ".entry-content">>)
         IN IF ReadabilityAccepts(doc, MinReadabilityFast)
            THEN Ok(ReadabilityText(doc))
            ELSE IF Len(text) = 0 \/ Len(text) < MinTextFast
                 THEN Fail(MsgInsufficientFast)
                 ELSE Ok(text)

\* a slip: the content type is not tested
extractStaticAnyType(response) ==
    IF ReadabilityAccepts(response.doc, MinReadabilityFull)
    THEN [kind |-> "result", res |-> Ok(ReadabilityText(response.doc))]
    ELSE [kind |-> "render"]

\* fetchArticleText on the response of its axios.get, up to the launch of
\* the headless browser: a result, or the need to render
extractStatic(response) ==
    IF ~Includes(response.contentType, HTML)
    THEN [kind |-> "result", res |-> Fail(MsgNotHtml)]
    ELSE IF ReadabilityAccepts(response.doc, MinReadabilityFull)
         THEN [kind |-> "result", res |-> Ok(ReadabilityText(response.doc))]
         ELSE [kind |-> "render"]

\* the last fallback of fetchArticleText: cheerio on the fetched markup
extractFallback(doc) ==
    LET text == SelectorText(doc, <<"article", "main", "#content", ".main-content",
                                     ".post-content", ".entry-content">>)
    IN IF Len(text) = 0 \/ Len(text) < MinTextFull
       THEN Fail(MsgInsufficient) ELSE Ok(text)

\* fetchArticleText on the markup the headless browser delivered:
\* Readability, then cheerio, then the fallback on the fetched markup
extractRendered(doc, renderedDoc) ==
    LET textRender == SelectorText(renderedDoc, <<"article", "main", "#content">>)
    IN IF ReadabilityAccepts(renderedDoc, MinReadabilityRendered)
       THEN Ok(ReadabilityText(renderedDoc))
       ELSE IF Len(textRender) > 0 /\ Len(textRender) >= MinTextFull
            THEN Ok(textRender)
            ELSE extractFallback(doc)

\* The pages do not change: what each stage makes of the response of a url
\* is the same at every fetch.
FastByUrl == [u \in DOMAIN Responses |-> extractFast(Responses[u])]
StaticByUrl == [u \in DOMAIN Responses |-> extractStatic(Responses[u])]
RenderedByUrl ==
    [u \in DOMAIN Responses |-> extractRendered(Responses[u].doc, Responses[u].rendered)]
FallbackByUrl == [u \in DOMAIN Responses |-> extractFallback(Responses[u].doc)]

\* fetchArticleTextFast from the answer of its axios.get
fetchArticleTextFast(url, outcome) ==
    IF ~outcome.ok THEN Fail(outcome.msg) ELSE FastByUrl[url]

\* fetchArticleText from the answer of its axios.get to the launch of the
\* headless browser
fetchArticleTextStatic(url, outcome) ==
    IF ~outcome.ok THEN [kind |-> "result", res |-> Fail(outcome.msg)]
    ELSE StaticByUrl[url]

\* fetchArticleText from the end of the headless-browser pass, whose
\* failure is caught
fetchArticleTextRendered(url, rendering) ==
    IF ~rendering.ok THEN FallbackByUrl[url] ELSE RenderedByUrl[url]

\* ------------------------------------------------------------------------
\* The steps an extraction takes, in the order the code reaches them:
\* "fetch" the axios.get, "type" the test of the content type,
\* "readability" and "selectors" on the fetched markup, "render" the launch
\* of the headless browser, "readability2" and "selectors2" on the rendered
\* markup.
\* ------------------------------------------------------------------------
\* a slip: the fast path falls back on the headless browser
fastStagesRender(response) ==
    IF ~Includes(response.contentType, HTML) THEN <<"type">>
    ELSE IF ReadabilityAccepts(response.doc, MinReadabilityFast)
         THEN <<"type", "readability">>
         ELSE <<"type", "readability", "selectors", "render">>

\* fetchArticleTextFast on the response of its axios.get
fastStages(response) ==
    IF ~Includes(response.contentType, HTML) THEN <<"type">>
    ELSE IF ReadabilityAccepts(response.doc, MinReadabilityFast)
         THEN <<"type", "readability">>
         ELSE <<"type", "readability", "selectors">>

\* fetchArticleText on the response of its axios.get, up to the launch of
\* the headless browser
staticStages(response) ==
    IF ~Includes(response.contentType, HTML) THEN <<"type">>
    ELSE IF ReadabilityAccepts(response.doc, MinReadabilityFull)
         THEN <<"type", "readability">>
         ELSE <<"type", "readability", "render">>

\* fetchArticleText from the end of the headless-browser pass
renderedStages(doc, renderedDoc) ==
    LET textRender == SelectorText(renderedDoc, <<"article", "main", "#content">>)
    IN IF ReadabilityAccepts(renderedDoc, MinReadabilityRendered)
       THEN <<"readability2">>
       ELSE IF Len(textRender) > 0 /\ Len(textRender) >= MinTextFull
            THEN <<"readability2", "selectors2">>
            ELSE <<"readability2", "selectors2", "selectors">>

FastStagesByUrl == [u \in DOMAIN Responses |-> fastStages(Responses[u])]
StaticStagesByUrl == [u \in DOMAIN Responses |-> staticStages(Responses[u])]
RenderedStagesByUrl ==
    [u \in DOMAIN Responses |-> renderedStages(Responses[u].doc, Responses[u].rendered)]

\* the steps a call takes once its axios.get was answered
fetchArticleTextFastStages(url, outcome) ==
    IF ~outcome.ok THEN <<>> ELSE FastStagesByUrl[url]

fetchArticleTextStaticStages(url, outcome) ==
    IF ~outcome.ok THEN <<>> ELSE StaticStagesByUrl[url]

fetchArticleTextRenderedStages(url, rendering) ==
    IF ~rendering.ok THEN <<"selectors">> ELSE RenderedStagesByUrl[url]

\* ------------------------------------------------------------------------
\* extractiveSummary: the first maxSentences matches of /[^.!?]+[.!?]+/g,
\* each trimmed, joined by a space; the whole text if nothing matches
\* ------------------------------------------------------------------------
IsTerminator(c) == c \in {".", "!", "?"}

\* last index of the run of characters that starts at i and are all
\* terminators or all non-terminators, like s[i]
RunEnd(s, i) ==
    LET ends == {k \in i..Len(s) :
                    k = Len(s) \/ IsTerminator(s[k + 1]) # IsTerminator(s[i])}
    IN CHOOSE k \in ends : \A j \in ends : k <= j

RECURSIVE MatchSentences(_, _, _)
MatchSentences(s, i, n) ==
    IF n = 0 \/ i > Len(s) THEN <<>>
    ELSE IF IsTerminator(s[i]) THEN MatchSentences(s, i + 1, n)
    ELSE LET q == RunEnd(s, i)
         IN IF q = Len(s) THEN <<>>
            ELSE <<SubSeq(s, i, RunEnd(s, q + 1))>>
                 \o MatchSentences(s, RunEnd(s, q + 1) + 1, n - 1)

RECURSIVE JoinSpace(_)
JoinSpace(parts) ==
    IF parts = <<>> THEN <<>>
    ELSE IF Len(parts) = 1 THEN parts[1]
    ELSE parts[1] \o <<" ">> \o JoinSpace(Tail(parts))

\* a slip: every sentence is kept
extractiveSummaryUncut(text, maxSentences) ==
    IF Len(text) = 0 THEN <<>>
    ELSE LET matched == MatchSentences(text, 1, Len(text))
             sentences == IF matched = <<>> THEN <<text>> ELSE matched
         IN JoinSpace([i \in 1..Len(sentences) |-> Trim(sentences[i])])

extractiveSummary(text, maxSentences) ==
    IF Len(text) = 0 THEN <<>>
    ELSE LET matched == MatchSentences(text, 1, maxSentences)
             sentences == IF matched = <<>> /\ maxSentences > 0
                          THEN <<text>> ELSE matched
         IN JoinSpace([i \in 1..Len(sentences) |-> Trim(sentences[i])])

\* ------------------------------------------------------------------------
\* State
\* ------------------------------------------------------------------------
VARIABLES
    now,                \* the wall clock, what Date.now() returns
    apiKey,             \* whether process.env.OPENROUTER_API_KEY is set
    reqs,               \* POST /api/summarize-article requests, in arrival order
    jobs,               \* the Job objects createJob has allocated, in order
    summarizationJobs,  \* the Map: job id -> Job object (an index of jobs)
    tasks,              \* the processJob executions that were scheduled
    lastPoll,           \* the latest answer of GET /api/summarize-status
    lastRequestTime,    \* the rate limiter's time of the last request
    callers,            \* the calls of waitForRateLimit, in order of their start
    searches,           \* the requests to the search and trending endpoints
    call                \* a call of a function that is followed on its own

vars == <<now, apiKey, reqs, jobs, summarizationJobs, tasks, lastPoll,
          lastRequestTime, callers, searches, call>>

\* the state of the summarization job pipeline but the clock
jobVars == <<apiKey, reqs, jobs, summarizationJobs, tasks, lastPoll>>

\* the state of the rate limiter of the search endpoint
rateVars == <<lastRequestTime, callers>>

Undefined == [k |-> "undefined"]
Obj(url) == [k |-> "object", url |-> url]

\* the request bodies the body parsers hand to the handler
Bodies ==
    { Undefined,
      Str(<<>>),
      Str(<<"n", "o">>),
      Str(<<" ">> \o UrlA \o <<"\n">>),
      Obj(Undefined), Obj(Null), Obj(Num(123)), Obj(Str(<<>>)),
      Obj(Str(<<"f", "t", "p", ":", "/", "/", "a">>)),
      Obj(Str(UrlA)), Obj(Str(UrlB)), Obj(Str(UrlP)), Obj(Str(UrlX)) }

\* every id createJob can produce within the bounds
JobIds == (0..MaxClock) \X (0..(MaxRnd - 1))

Extracting == {"full", "render", "fast"}

\* a slip: the callback is queued behind the input events, as setTimeout
\* would queue it
QueueEmptyIgnored == TRUE

\* no process.nextTick callback is waiting: the event loop may take an event
QueueEmpty == \A t \in DOMAIN tasks : tasks[t].pc # "nextTick"

\* no promise of processJob was rejected.  Nothing handles such a
\* rejection, and Node.js (15 and later) ends the process on it.
Alive == \A t \in DOMAIN tasks : tasks[t].pc # "rejected"

\* no function is followed on its own
NoCall == [fn |-> "", arg |-> <<>>, outs |-> <<>>, browsers |-> 0]

\* no poll was answered yet
NoPoll == [id |-> <<>>, code |-> 0]

Init ==
    /\ now = 0
    /\ apiKey \in BOOLEAN
    /\ reqs = <<>>
    /\ jobs = <<>>
    /\ summarizationJobs = [id \in {} |-> 0]
    /\ tasks = <<>>
    /\ lastPoll = NoPoll
    /\ lastRequestTime = 0
    /\ callers = <<>>
    /\ searches = <<>>
    /\ call = NoCall

\* ------------------------------------------------------------------------
\* POST /api/summarize-article
\* ------------------------------------------------------------------------
\* the url the handler reads from the body, or null
bodyUrl(body) ==
    IF body.k = "undefined" THEN Null
    ELSE IF body.k = "str"
         THEN IF Len(body.v) > 0 /\ StartsWith(Trim(body.v), HTTP)
              THEN Str(Trim(body.v)) ELSE Null
    ELSE IF body.k = "object" /\ body.url.k # "undefined" /\ Truthy(body.url)
         THEN body.url
    ELSE Null

\* !(!url || typeof url !== 'string' || !url.startsWith('http'))
validUrl(url) == Truthy(url) /\ url.k = "str" /\ StartsWith(url.v, HTTP)

\* new Date().toISOString() keeps the order of the clock values it prints,
\* so a timestamp is kept as the clock value
createJob(id, createdAt, updatedAt, payload) ==
    [id |-> id,
     status |-> "pending",
     createdAt |-> createdAt,
     updatedAt |-> updatedAt,
     url |-> payload.url,
     fastSummary |-> IF Len(payload.fastSummary) > 0
                      THEN Str(payload.fastSummary) ELSE Null,
     result |-> Null,
     error |-> Null]

\* a slip: the map is replaced by one that holds the new job only
MapSetAlone(map, id, o) == [k \in {id} |-> o]

\* summarizationJobs.set(id, job)
MapSet(map, id, o) ==
    [k \in DOMAIN map \cup {id} |-> IF k = id THEN o ELSE map[k]]

\* a slip: processJob is called in the handler, before the answer
scheduleProcessJobNow(o) ==
    <<[job |-> o, pc |-> "full",
       attempts |-> 1, extractOk |-> FALSE, sumCalls |-> 0,
       fullStages |-> <<"fetch">>, fastStages |-> <<>>,
       fullRes |-> "", fastRes |-> ""]>>

\* a slip: the callback is queued twice
scheduleProcessJobTwice(o) ==
    <<[job |-> o, pc |-> "nextTick", attempts |-> 0, extractOk |-> FALSE, sumCalls |-> 0,
       fullStages |-> <<>>, fastStages |-> <<>>,
       fullRes |-> "", fastRes |-> ""],
      [job |-> o, pc |-> "nextTick", attempts |-> 0, extractOk |-> FALSE, sumCalls |-> 0,
       fullStages |-> <<>>, fastStages |-> <<>>,
       fullRes |-> "", fastRes |-> ""]>>

\* process.nextTick(() => processJob(job))
scheduleProcessJob(o) ==
    <<[job |-> o, pc |-> "nextTick",
       attempts |-> 0, extractOk |-> FALSE, sumCalls |-> 0,
       fullStages |-> <<>>, fastStages |-> <<>>,
       fullRes |-> "", fastRes |-> ""]>>

\* what the clock can show at a read that follows a read of t in the same
\* run of synchronous code
ClockRead(t) == {c \in t..MaxClock : c <= t + 1}

\* a slip: the catch block of the fallback extraction does not return
submitProceedsAlways(res) == TRUE

\* the synchronous extraction ended: the handler goes on to create a job,
\* or returns the 400 answer from its catch block
submitProceeds(res) == res.ok

\* how a call of an extraction function ended: "ok" when it returned text,
\* "failed" when it threw ("" while it has not ended)
Ended(res) == IF res.ok THEN "ok" ELSE "failed"

\* the end of the handler, from the result of the synchronous extraction:
\* extractiveSummary, createJob, process.nextTick and the answer
\* (rq: the request with the strategies of the extraction noted)
SubmitSettle(r, rq, res) ==
    IF submitProceeds(res)
    THEN \E rnd \in 0..(MaxRnd - 1), createdAt \in ClockRead(now) :
         \E updatedAt \in ClockRead(createdAt) :
            LET text == IF res.ok THEN res.text ELSE <<>>
                fastSummary == extractiveSummary(text, 3)
                id == <<now, rnd>>
                o == Len(jobs) + 1
            IN /\ jobs' = Append(jobs, createJob(id, createdAt, updatedAt,
                                    [url |-> reqs[r].url, fastSummary |-> fastSummary]))
               /\ summarizationJobs' = MapSet(summarizationJobs, id, o)
               /\ tasks' = tasks \o scheduleProcessJob(o)
               /\ now' = updatedAt
               /\ reqs' = [reqs EXCEPT ![r] =
                              [rq EXCEPT !.pc = "answered", !.extracted = res.ok,
                                         !.job = o,
                                         !.resp = [code |-> 200, jobId |-> id,
                                                   fastSummary |-> Str(fastSummary)]]]
    ELSE /\ reqs' = [reqs EXCEPT ![r] =
                        [rq EXCEPT !.pc = "answered", !.extracted = res.ok,
                                   !.resp = [code |-> 400, error |-> MsgInsufficient]]]
         /\ UNCHANGED <<now, jobs, summarizationJobs, tasks>>

\* the url is a string that begins with http:// or https://
HasHttpScheme(url) ==
    /\ url.k = "str"
    /\ \/ StartsWith(url.v, HTTP \o <<":", "/", "/">>)
       \/ StartsWith(url.v, HTTP \o <<"s", ":", "/", "/">>)

\* a request arrives: validation, then the call of fetchArticleTextFast
SubmitArrive ==
    /\ Alive
    /\ QueueEmpty
    /\ Len(reqs) < MaxReqs
    /\ \E body \in Bodies :
        LET url == bodyUrl(body)
        IN reqs' = Append(reqs,
             IF validUrl(url)
             THEN [pc |-> "fast", url |-> url.v, fetches |-> 1, extracted |-> FALSE,
                   job |-> 0, schemeOk |-> HasHttpScheme(url),
                   fastStages |-> <<"fetch">>, fullStages |-> <<>>,
                   fastRes |-> "", fullRes |-> "",
                   resp |-> Null]
             ELSE [pc |-> "answered", url |-> <<>>, fetches |-> 0, extracted |-> FALSE,
                   job |-> 0, schemeOk |-> HasHttpScheme(url),
                   fastStages |-> <<>>, fullStages |-> <<>>,
                   fastRes |-> "", fullRes |-> "",
                   resp |-> [code |-> 400, error |-> MsgInvalidBody]])
    /\ UNCHANGED <<now, apiKey, jobs, summarizationJobs, tasks, lastPoll, rateVars, searches, call>>

\* a slip: the catch block of the fast extraction answers at once
submitFallsBackNever(res) == FALSE

\* the catch block of the fast extraction calls fetchArticleText
submitFallsBack(res) == ~res.ok

\* fetchArticleTextFast answers; when it failed the handler calls
\* fetchArticleText once
SubmitFastReply(r) ==
    /\ Alive
    /\ QueueEmpty
    /\ reqs[r].pc = "fast"
    /\ \E outcome \in FetchOutcomes(reqs[r].url) :
        LET res == fetchArticleTextFast(reqs[r].url, outcome)
            rq == [reqs[r] EXCEPT !.fastStages =
                      @ \o fetchArticleTextFastStages(reqs[r].url, outcome),
                                  !.fastRes = Ended(res)]
        IN IF ~submitFallsBack(res)
           THEN SubmitSettle(r, rq, res)
           ELSE /\ reqs' = [reqs EXCEPT ![r] =
                               [rq EXCEPT !.pc = "heavy", !.fetches = @ + 1,
                                          !.fullStages = <<"fetch">>]]
                /\ UNCHANGED <<now, jobs, summarizationJobs, tasks>>
    /\ UNCHANGED <<apiKey, lastPoll, rateVars, searches, call>>

\* the axios.get of the fallback fetchArticleText answers
SubmitHeavyReply(r) ==
    /\ Alive
    /\ QueueEmpty
    /\ reqs[r].pc = "heavy"
    /\ \E outcome \in FetchOutcomes(reqs[r].url) :
        LET st == fetchArticleTextStatic(reqs[r].url, outcome)
            rq == [reqs[r] EXCEPT !.fullStages =
                      @ \o fetchArticleTextStaticStages(reqs[r].url, outcome)]
        IN IF st.kind = "result"
           THEN SubmitSettle(r, [rq EXCEPT !.fullRes = Ended(st.res)], st.res)
           ELSE /\ reqs' = [reqs EXCEPT ![r] = [rq EXCEPT !.pc = "render"]]
                /\ UNCHANGED <<now, jobs, summarizationJobs, tasks>>
    /\ UNCHANGED <<apiKey, lastPoll, rateVars, searches, call>>

\* the headless-browser pass of the fallback fetchArticleText ends
SubmitRenderReply(r) ==
    /\ Alive
    /\ QueueEmpty
    /\ reqs[r].pc = "render"
    /\ \E rendering \in RenderOutcomes(reqs[r].url) :
        SubmitSettle(r,
            [reqs[r] EXCEPT !.fullStages =
                @ \o fetchArticleTextRenderedStages(reqs[r].url, rendering),
                            !.fullRes =
                Ended(fetchArticleTextRendered(reqs[r].url, rendering))],
            fetchArticleTextRendered(reqs[r].url, rendering))
    /\ UNCHANGED <<apiKey, lastPoll, rateVars, searches, call>>

\* ------------------------------------------------------------------------
\* processJob
\* ------------------------------------------------------------------------
\* err.message || String(err)
ErrText(msg) == IF msg # "" THEN msg ELSE "Error"

\* a slip: the time of creation is written as the time of the update
jobProcessingCreatedAt(job, t) ==
    [job EXCEPT !.status = "processing", !.updatedAt = job.createdAt]

\* a slip: the result is set to the empty text when processing begins
jobProcessingEmptyResult(job, t) ==
    [job EXCEPT !.status = "processing", !.updatedAt = t, !.result = Str(<<>>)]

jobProcessing(job, t) == [job EXCEPT !.status = "processing", !.updatedAt = t]

\* a slip: the result is not stored
jobDoneNoResult(job, result, t) ==
    [job EXCEPT !.status = "done", !.updatedAt = t]

\* a slip: the time of the update is not written with the result
jobDoneStale(job, result, t) ==
    [job EXCEPT !.result = Str(result), !.status = "done"]

jobDone(job, result, t) ==
    [job EXCEPT !.result = Str(result), !.status = "done", !.updatedAt = t]

\* a slip: a failure puts the job back to pending
jobFailedToPending(job, msg, t) ==
    [job EXCEPT !.error = [k |-> "msg", v |-> ErrText(msg)],
                !.status = "pending", !.updatedAt = t]

\* a slip: the failure clears the preview
jobFailedClearsSummary(job, msg, t) ==
    [job EXCEPT !.error = [k |-> "msg", v |-> ErrText(msg)],
                !.status = "failed", !.updatedAt = t, !.fastSummary = Null]

jobFailed(job, msg, t) ==
    [job EXCEPT !.error = [k |-> "msg", v |-> ErrText(msg)],
                !.status = "failed", !.updatedAt = t]

\* a slip: the call of summarizeWithOpenRouter is placed after the try
\* statement
processJobCatchesExtraction(where) == where = "extract"

\* the try block of processJob holds the extraction and the summarization
processJobCatches(where) == where \in {"extract", "summarize"}

\* a slip: a failed summarization is tried once more
processJobThrowsRetry(t, tk, msg, where) ==
    IF where = "summarize" /\ tk.sumCalls < 2
    THEN /\ tasks' = [tasks EXCEPT ![t] =
                         [tk EXCEPT !.pc = "summarize", !.sumCalls = @ + 1]]
         /\ UNCHANGED jobs
    ELSE /\ tasks' = [tasks EXCEPT ![t] = [tk EXCEPT !.pc = "returned"]]
         /\ jobs' = [jobs EXCEPT ![tk.job] = jobFailed(@, msg, now)]

\* an error is thrown in processJob: the catch block records it on the job
\* and the promise of processJob is fulfilled; an error outside the try
\* block would reject the promise, which nothing handles
\* (tk: the execution as it is when the error is thrown)
processJobThrows(t, tk, msg, where) ==
    IF processJobCatches(where)
    THEN /\ tasks' = [tasks EXCEPT ![t] = [tk EXCEPT !.pc = "returned"]]
         /\ jobs' = [jobs EXCEPT ![tk.job] = jobFailed(@, msg, now)]
    ELSE /\ tasks' = [tasks EXCEPT ![t] = [tk EXCEPT !.pc = "rejected"]]
         /\ UNCHANGED jobs

\* the process.nextTick callback: processJob up to its first await
RunNextTick(t) ==
    /\ Alive
    /\ tasks[t].pc = "nextTick"
    /\ jobs' = [jobs EXCEPT ![tasks[t].job] = jobProcessing(@, now)]
    /\ tasks' = [tasks EXCEPT ![t].pc = "full", ![t].attempts = @ + 1,
                               ![t].fullStages = <<"fetch">>]
    /\ UNCHANGED <<now, apiKey, reqs, summarizationJobs, lastPoll, rateVars, searches, call>>

\* a slip: the summarizer is called whatever the extraction returned
summarizerFollowsAlways(res) == TRUE

\* the try block goes on to summarizeWithOpenRouter when the extraction
\* returned text
summarizerFollows(res) == res.ok

\* a slip: the catch block of the full extraction rethrows
retriesFastNever(stage) == FALSE

\* the catch block of the full extraction calls fetchArticleTextFast; what
\* that call throws goes to the catch block of processJob
retriesFast(stage) == stage = "full"

\* a slip: the key is not tested
summarizerPostsAlways(key) == TRUE

\* summarizeWithOpenRouter sends its request when the key is set, and
\* throws before that when it is not
summarizerPosts(key) == key

\* processJob from the end of an extraction attempt.  A successful attempt
\* is followed by the call of summarizeWithOpenRouter, which throws at once
\* without the key and else posts its request; a failed full attempt by
\* fetchArticleTextFast; a failed fast attempt by the catch block.
\* (tk: the execution with the strategies of the attempt noted)
JobAfterExtraction(t, tk, res, stage) ==
    IF summarizerFollows(res)
    THEN IF summarizerPosts(apiKey)
         THEN /\ tasks' = [tasks EXCEPT ![t] =
                              [tk EXCEPT !.pc = "summarize",
                                         !.extractOk = res.ok,
                                         !.sumCalls = @ + 1]]
              /\ UNCHANGED jobs
         ELSE processJobThrows(t, [tk EXCEPT !.extractOk = res.ok,
                                             !.sumCalls = @ + 1],
                               MsgMissingKey, "summarize")
    ELSE IF retriesFast(stage)
         THEN /\ tasks' = [tasks EXCEPT ![t] =
                              [tk EXCEPT !.pc = "fast",
                                         !.attempts = @ + 1,
                                         !.fastStages = <<"fetch">>]]
              /\ UNCHANGED jobs
         ELSE processJobThrows(t, tk, res.msg, "extract")

\* the axios.get of fetchArticleText answers
JobFullReply(t) ==
    /\ Alive
    /\ QueueEmpty
    /\ tasks[t].pc = "full"
    /\ \E outcome \in FetchOutcomes(jobs[tasks[t].job].url) :
        LET st == fetchArticleTextStatic(jobs[tasks[t].job].url, outcome)
            tk == [tasks[t] EXCEPT !.fullStages =
                      @ \o fetchArticleTextStaticStages(jobs[tasks[t].job].url, outcome)]
        IN IF st.kind = "result"
           THEN JobAfterExtraction(t, [tk EXCEPT !.fullRes = Ended(st.res)],
                                   st.res, "full")
           ELSE /\ tasks' = [tasks EXCEPT ![t] = [tk EXCEPT !.pc = "render"]]
                /\ UNCHANGED jobs
    /\ UNCHANGED <<now, apiKey, reqs, summarizationJobs, lastPoll, rateVars, searches, call>>

\* the headless-browser pass of fetchArticleText ends
JobRenderReply(t) ==
    /\ Alive
    /\ QueueEmpty
    /\ tasks[t].pc = "render"
    /\ \E rendering \in RenderOutcomes(jobs[tasks[t].job].url) :
        JobAfterExtraction(t,
            [tasks[t] EXCEPT !.fullStages =
                @ \o fetchArticleTextRenderedStages(jobs[tasks[t].job].url, rendering),
                             !.fullRes =
                Ended(fetchArticleTextRendered(jobs[tasks[t].job].url, rendering))],
            fetchArticleTextRendered(jobs[tasks[t].job].url, rendering), "full")
    /\ UNCHANGED <<now, apiKey, reqs, summarizationJobs, lastPoll, rateVars, searches, call>>

\* the axios.get of the fallback fetchArticleTextFast answers
JobFastReply(t) ==
    /\ Alive
    /\ QueueEmpty
    /\ tasks[t].pc = "fast"
    /\ \E outcome \in FetchOutcomes(jobs[tasks[t].job].url) :
        JobAfterExtraction(t,
            [tasks[t] EXCEPT !.fastStages =
                @ \o fetchArticleTextFastStages(jobs[tasks[t].job].url, outcome),
                             !.fastRes =
                Ended(fetchArticleTextFast(jobs[tasks[t].job].url, outcome))],
            fetchArticleTextFast(jobs[tasks[t].job].url, outcome), "fast")
    /\ UNCHANGED <<now, apiKey, reqs, summarizationJobs, lastPoll, rateVars, searches, call>>

\* what the completion service can answer: a failure of the request, or
\* a body whose choices[0].message.content is missing, empty, blank or text
SummarizerOutcomes ==
    {[ok |-> FALSE, msg |-> m] : m \in NetErrors}
    \cup {[ok |-> TRUE, content |-> c] :
            c \in {Null, Str(<<>>), Str(<<" ">>), Str(<<" ", "S", ".", "\n">>)}}

\* summarizeWithOpenRouter from the answer of its axios.post
summarizeWithOpenRouter(outcome) ==
    IF ~outcome.ok THEN Fail(outcome.msg)
    ELSE IF ~Truthy(outcome.content) THEN Fail(MsgNoSummary)
    ELSE Ok(Trim(outcome.content.v))

\* the completion service answers: the end of processJob
SummarizerReply(t) ==
    /\ Alive
    /\ QueueEmpty
    /\ tasks[t].pc = "summarize"
    /\ \E outcome \in SummarizerOutcomes :
        LET fullResult == summarizeWithOpenRouter(outcome)
            o == tasks[t].job
        IN IF fullResult.ok
           THEN /\ jobs' = [jobs EXCEPT ![o] = jobDone(@, fullResult.text, now)]
                /\ tasks' = [tasks EXCEPT ![t].pc = "returned"]
           ELSE processJobThrows(t, tasks[t], fullResult.msg, "summarize")
    /\ UNCHANGED <<now, apiKey, reqs, summarizationJobs, lastPoll, rateVars, searches, call>>

\* ------------------------------------------------------------------------
\* GET /api/summarize-status/:jobId
\* ------------------------------------------------------------------------
UnknownId == <<MaxClock + 1, 0>>

\* a slip: the handler does not test whether the map has the id
statusResponseNoTest(jobId) ==
    [id |-> jobId, code |-> 200,
     job |-> IF jobId \in DOMAIN summarizationJobs
             THEN jobs[summarizationJobs[jobId]] ELSE Null]

statusResponse(jobId) ==
    IF jobId \notin DOMAIN summarizationJobs
    THEN [id |-> jobId, code |-> 404, error |-> MsgJobNotFound]
    ELSE [id |-> jobId, code |-> 200, job |-> jobs[summarizationJobs[jobId]]]

Terminal(status) == status \in {"done", "failed"}

\* a poll arrives, for the id of a job or for an id that was never given
GetStatus ==
    /\ Alive
    /\ QueueEmpty
    /\ \E jobId \in DOMAIN summarizationJobs \cup {UnknownId} :
        lastPoll' = statusResponse(jobId)
    /\ UNCHANGED <<now, apiKey, reqs, jobs, summarizationJobs, tasks, rateVars, searches, call>>

\* a millisecond passes
Tick ==
    /\ now < MaxClock
    /\ now' = now + 1
    /\ UNCHANGED <<apiKey, reqs, jobs, summarizationJobs, tasks, lastPoll, rateVars, searches, call>>

Next ==
    \/ SubmitArrive
    \/ \E r \in DOMAIN reqs : SubmitFastReply(r)
    \/ \E r \in DOMAIN reqs : SubmitHeavyReply(r)
    \/ \E r \in DOMAIN reqs : SubmitRenderReply(r)
    \/ \E t \in DOMAIN tasks : RunNextTick(t)
    \/ \E t \in DOMAIN tasks : JobFullReply(t)
    \/ \E t \in DOMAIN tasks : JobRenderReply(t)
    \/ \E t \in DOMAIN tasks : JobFastReply(t)
    \/ \E t \in DOMAIN tasks : SummarizerReply(t)
    \/ GetStatus
    \/ Tick

Spec == Init /\ [][Next]_vars
\* The event loop runs a queued callback, and every axios.get and every
\* step of the headless browser ends within its timeout.  The axios.post
\* of summarizeWithOpenRouter sets no timeout: nothing makes it end.
FairSpec ==
    /\ Spec
    /\ WF_vars(\E t \in DOMAIN tasks : RunNextTick(t))
    /\ WF_vars(\E t \in DOMAIN tasks : JobFullReply(t))
    /\ WF_vars(\E t \in DOMAIN tasks : JobRenderReply(t))
    /\ WF_vars(\E t \in DOMAIN tasks : JobFastReply(t))
    /\ WF_vars(\E r \in DOMAIN reqs : SubmitFastReply(r))
    /\ WF_vars(\E r \in DOMAIN reqs : SubmitHeavyReply(r))
    /\ WF_vars(\E r \in DOMAIN reqs : SubmitRenderReply(r))

\* ------------------------------------------------------------------------
\* waitForRateLimit
\* ------------------------------------------------------------------------
MIN_REQUEST_INTERVAL == 1000

\* the clock is followed in steps of half the interval; a run of synchronous
\* code and the promise callbacks that follow it take less than one step
Quantum == MIN_REQUEST_INTERVAL \div 2

\* Date.now() when the server starts: lastRequestTime is 0 and the clock
\* counts from 1970, so the first call never waits
StartTime == MIN_REQUEST_INTERVAL

EndTime == StartTime + MaxTicks * Quantum

\* timeSinceLastRequest < MIN_REQUEST_INTERVAL
mustWait(t, last) == t - last < MIN_REQUEST_INTERVAL

\* a slip: the time already elapsed is taken for the time left
waitTimeElapsed(t, last) == t - last

\* a slip: the time elapsed is added to the interval
waitTimeAdded(t, last) == MIN_REQUEST_INTERVAL + (t - last)

\* MIN_REQUEST_INTERVAL - timeSinceLastRequest
waitTime(t, last) == MIN_REQUEST_INTERVAL - (t - last)

\* the calls whose request is out
Sent == {c \in DOMAIN callers : callers[c].pc = "sent"}

RateInit ==
    /\ now = StartTime
    /\ apiKey = FALSE
    /\ reqs = <<>>
    /\ jobs = <<>>
    /\ summarizationJobs = [id \in {} |-> 0]
    /\ tasks = <<>>
    /\ lastPoll = NoPoll
    /\ lastRequestTime = 0
    /\ callers = <<>>
    /\ searches = <<>>
    /\ call = NoCall

\* searchSemanticScholar or fetchTrendingPapers calls waitForRateLimit:
\* the function up to its await, or to its end when there is nothing to
\* wait for; the caller then issues its request in the same run.
\* after: the calls whose request was out when this one began.
CallWaitForRateLimit ==
    /\ Len(callers) < MaxCallers
    /\ IF mustWait(now, lastRequestTime)
       THEN /\ callers' = Append(callers,
                   [pc |-> "waiting", begun |-> now,
                    wake |-> now + waitTime(now, lastRequestTime),
                    sent |-> 0, after |-> Sent])
            /\ UNCHANGED lastRequestTime
       ELSE /\ callers' = Append(callers,
                   [pc |-> "sent", begun |-> now, wake |-> now,
                    sent |-> now, after |-> Sent])
            /\ lastRequestTime' = now
    /\ UNCHANGED <<now, jobVars, searches, call>>

\* the setTimeout of a waiting call fires, not before its time: the rest
\* of waitForRateLimit, and the caller issues its request
TimerFires(c) ==
    /\ callers[c].pc = "waiting"
    /\ now >= callers[c].wake
    /\ lastRequestTime' = now
    /\ callers' = [callers EXCEPT ![c].pc = "sent", ![c].sent = now]
    /\ UNCHANGED <<now, jobVars, searches, call>>

\* time passes
RateTick ==
    /\ now < EndTime
    /\ now' = now + Quantum
    /\ UNCHANGED <<jobVars, rateVars, searches, call>>

RateNext ==
    \/ CallWaitForRateLimit
    \/ \E c \in DOMAIN callers : TimerFires(c)
    \/ RateTick

RateSpec == RateInit /\ [][RateNext]_vars

\* A timer that is due fires, and time passes up to the end of the time
\* that is followed.
FairRateSpec ==
    /\ RateSpec
    /\ WF_vars(\E c \in DOMAIN callers : TimerFires(c))
    /\ WF_vars(RateTick)

\* ------------------------------------------------------------------------
\* Functions followed on their own: extractiveSummary on an extracted text,
\* the article text summarizeWithOpenRouter puts in its prompt, and the two
\* extractions on the response of a page that serves markup.  A call keeps
\* the function, its argument and what each application returned.
\* ------------------------------------------------------------------------
PromptChars == 25000

\* String.prototype.slice(from, to) for 0 <= from <= to
Slice(s, from, to) ==
    SubSeq(s, from + 1, IF to < Len(s) THEN to ELSE Len(s))

\* a slip: the text is not cut
promptTextWhole(text) == text

\* ${text.slice(0, 25000)} in the prompt of summarizeWithOpenRouter
promptText(text) == Slice(text, 0, PromptChars)

TextChars == {"a", " ", ".", "?"}

\* the extracted texts: not empty, whitespace-normalised
Texts ==
    {s \in UNION {[1..n -> TextChars] : n \in 1..MaxText} : Normalize(s) = s}

PatternChars == <<"a", "b", "c">>

\* a text of n characters that differ from place to place
Pattern(n) == [i \in 1..n |-> PatternChars[(i % 3) + 1]]

\* texts of a few characters, and texts about as long as the prompt allows
Lengths == (1..MaxOver) \cup ((PromptChars - MaxOver)..(PromptChars + MaxOver))

\* what a content container can hold: at least 120 characters once the
\* whitespace is normalised
ContainerTexts ==
    {Rep("x", 120),
     <<"\n", " ">> \o Rep("x", 70) \o <<" ", "\n", " ">> \o Rep("y", 60) \o <<"\n">>,
     Rep("x", 250)}

\* a page whose markup needs no script: the container selector finds has
\* the text, the text of all body elements has it too, Readability finds
\* the article or nothing, and the headless browser delivers the same
\* document
Page(container, text, readability) ==
    LET doc == [readability |-> readability,
                sel |-> [NoSel EXCEPT ![container] = text],
                bodyAll |-> text]
    IN [contentType |-> TypeHtml, doc |-> doc, rendered |-> doc]

Pages ==
    {Page(c, t, Null) : c \in {"article", ".main-content"}, t \in ContainerTexts}
    \cup {Page(c, t, [k |-> "article", title |-> title, textContent |-> t]) :
             c \in {"article", ".main-content"}, t \in ContainerTexts,
             title \in {<<>>, <<"T">>}}

\* what a content container too small for the fast path can hold
SmallTexts == {Rep("x", 50), Rep("x", 110)}

\* a page whose body has more text than its content container
PageWithRest(container, text, rest, readability) ==
    LET doc == [readability |-> readability,
                sel |-> [NoSel EXCEPT ![container] = text],
                bodyAll |-> text \o rest]
    IN [contentType |-> TypeHtml, doc |-> doc, rendered |-> doc]

\* pages with a small content container: the rest of the body is empty,
\* short or long, and Readability finds the container's text or nothing
ThinPages ==
    {PageWithRest(c, t, rest, readability) :
        c \in {"article", ".main-content"}, t \in SmallTexts,
        rest \in {<<>>, <<" ">> \o Rep("y", 30), <<" ">> \o Rep("y", 200)},
        readability \in {Null}}
    \cup {PageWithRest("article", t, <<" ">> \o Rep("y", 200),
                       [k |-> "article", title |-> <<>>, textContent |-> t]) :
             t \in SmallTexts}

\* the headless-browser pass delivers the document (the browser is closed
\* before the document is read), or puppeteer.launch fails, or a later
\* step fails (newPage, goto, content, close) with the browser launched
Renderings ==
    {[ok |-> TRUE, msg |-> "", launched |-> TRUE],
     [ok |-> FALSE, msg |-> MsgNetwork, launched |-> FALSE],
     [ok |-> FALSE, msg |-> MsgNetwork, launched |-> TRUE]}

\* browsers: the headless browsers the calls launched and did not close
NewCall(fn, arg) == [fn |-> fn, arg |-> arg, outs |-> <<>>, browsers |-> 0]

Returned(out) == call' = [call EXCEPT !.outs = Append(@, out)]

\* the call returns or throws after a headless-browser pass
ReturnedAfter(rendering, out) ==
    call' = [call EXCEPT !.outs = Append(@, out),
                         !.browsers = IF rendering.launched /\ ~rendering.ok
                                      THEN @ + 1 ELSE @]

PureInit ==
    /\ now = 0
    /\ apiKey = FALSE
    /\ reqs = <<>>
    /\ jobs = <<>>
    /\ summarizationJobs = [id \in {} |-> 0]
    /\ tasks = <<>>
    /\ lastPoll = NoPoll
    /\ lastRequestTime = 0
    /\ callers = <<>>
    /\ searches = <<>>
    /\ \/ \E text \in Texts : call = NewCall("extractiveSummary", text)
       \/ \E n \in Lengths : call = NewCall("promptText", Pattern(n))
       \/ \E page \in Pages \cup ThinPages :
             call = NewCall("fetchArticleTextFast", page)
       \/ \E page \in Pages : call = NewCall("fetchArticleText", page)

\* const fastSummary = extractiveSummary(fastText, 3)
CallExtractiveSummary ==
    /\ call.fn = "extractiveSummary"
    /\ call.outs = <<>>
    /\ Returned(extractiveSummary(call.arg, 3))
    /\ UNCHANGED <<now, jobVars, rateVars, searches>>

\* the article text of the prompt, whatever the length of the text
CallPromptText ==
    /\ call.fn = "promptText"
    /\ call.outs = <<>>
    /\ Returned(promptText(call.arg))
    /\ UNCHANGED <<now, jobVars, rateVars, searches>>

\* fetchArticleTextFast(url), once and again, the page answering each time
CallFetchArticleTextFast ==
    /\ call.fn = "fetchArticleTextFast"
    /\ Len(call.outs) < 2
    /\ Returned(extractFast(call.arg))
    /\ UNCHANGED <<now, jobVars, rateVars, searches>>

\* fetchArticleText(url), once and again, the page answering each time
CallFetchArticleText ==
    /\ call.fn = "fetchArticleText"
    /\ Len(call.outs) < 2
    /\ LET static == extractStatic(call.arg)
       IN IF static.kind = "result" THEN Returned(static.res)
          ELSE \E rendering \in Renderings :
                  ReturnedAfter(rendering,
                      IF rendering.ok
                      THEN extractRendered(call.arg.doc, call.arg.rendered)
                      ELSE extractFallback(call.arg.doc))
    /\ UNCHANGED <<now, jobVars, rateVars, searches>>

PureNext ==
    \/ CallExtractiveSummary
    \/ CallPromptText
    \/ CallFetchArticleTextFast
    \/ CallFetchArticleText

PureSpec == PureInit /\ [][PureNext]_vars

\* ------------------------------------------------------------------------
\* The search endpoints: POST /api/search-papers with searchSemanticScholar,
\* POST /api/trending-papers and POST /api/trending-papers-by-keywords with
\* fetchTrendingPapers.  A request keeps the calls it made of these
\* functions, a call the answers the search index gave it.  The clock is
\* followed in steps of one interval: every delay of the code is a multiple.
\* ------------------------------------------------------------------------
DefaultLimit == 30
TrendingLimit == 3
Retries == 3
RetryAfter == 300
BackoffBase == 2000
RetryDelay == 1000

MsgKeyword == "Keyword is required and must be a non-empty string."
MsgLimit == "Limit must be a number greater than 0."
MsgKeywords == "Request body must include a non-empty \"keywords\" array."
MsgRateLimit == "Rate limit exceeded. Please wait a few minutes before trying again."
MsgRateLimitTrending == "Rate limit exceeded for trending papers"
MsgFailedFetch == "Failed to fetch results from Semantic Scholar"
MsgRateLimitShort == "Rate limit exceeded"
MsgFailedSearch == "Failed to search papers"

\* error.message.includes('Rate limit exceeded'), for the messages above and
\* those of a failed request
MentionsRateLimit(msg) == msg \in {MsgRateLimit, MsgRateLimitTrending, MsgRateLimitShort}

Endpoints == {"search-papers", "trending-papers", "trending-papers-by-keywords"}

\* the limit of a request body: absent, null, a string or a number
LimitInputs ==
    {Undefined, Null, Str(<<"5">>), Num(0), Num(1), Num(MaxLimit - 1), Num(MaxLimit)}

\* what the search index makes of a request: papers, a body without data,
\* HTTP 429, or another failure (a timeout after 15 s, another status)
IndexAnswers == {"papers", "nodata", "429", "error"}

SearchEnd == StartTime + MaxSeconds * MIN_REQUEST_INTERVAL

NoResp == [code |-> 0, success |-> FALSE, error |-> "", retryAfter |-> 0, results |-> <<>>]

Pending == [k |-> "pending"]
Papers(some) == [k |-> "papers", some |-> some]
Throw(msg) == [k |-> "throw", msg |-> msg]

\* waitForRateLimit at time t up to its await, or to its end when there is
\* nothing to wait for: where the caller is, and lastRequestTime
Enter(t, last) ==
    IF mustWait(t, last)
    THEN [pc |-> "limit", wake |-> t + waitTime(t, last), last |-> last]
    ELSE [pc |-> "request", wake |-> t, last |-> t]

\* a call of searchSemanticScholar or fetchTrendingPapers at its first
\* statement, and one attempt of searchSemanticScholar later; limited counts
\* the calls of waitForRateLimit it has made
Attempt(cl, t, last) ==
    [cl EXCEPT !.pc = Enter(t, last).pc, !.wake = Enter(t, last).wake,
               !.limited = @ + 1]

FirstAttempt(numResults, t, last) ==
    Attempt([pc |-> "", attempt |-> 1, wake |-> 0, answers |-> <<>>,
             numResults |-> numResults, out |-> Pending, limited |-> 0], t, last)

\* keywords.map(async keyword => ...): each call runs to its first await
\* before the next begins
RECURSIVE StartCalls(_, _, _)
StartCalls(n, t, last) ==
    IF n = 0 THEN <<>>
    ELSE <<FirstAttempt(TrendingLimit, t, last)>>
         \o StartCalls(n - 1, t, Enter(t, last).last)

\* a slip: another failure at the last attempt waits and tries again
searchSemanticScholarAgain(cl, answer, msg, t) ==
    LET heard == [cl EXCEPT !.answers = Append(@, answer)]
    IN CASE answer = "papers" -> [heard EXCEPT !.pc = "done", !.out = Papers(TRUE)]
         [] answer = "nodata" -> [heard EXCEPT !.pc = "done", !.out = Papers(FALSE)]
         [] answer = "429" ->
                IF cl.attempt = Retries
                THEN [heard EXCEPT !.pc = "done", !.out = Throw(MsgRateLimit)]
                ELSE [heard EXCEPT !.pc = "backoff",
                                   !.wake = t + (2 ^ cl.attempt) * BackoffBase]
         [] answer = "error" ->
                [heard EXCEPT !.pc = "backoff", !.wake = t + RetryDelay * cl.attempt]

\* searchSemanticScholar when the index has answered its request
searchSemanticScholar(cl, answer, msg, t) ==
    LET heard == [cl EXCEPT !.answers = Append(@, answer)]
    IN CASE answer = "papers" -> [heard EXCEPT !.pc = "done", !.out = Papers(TRUE)]
         [] answer = "nodata" -> [heard EXCEPT !.pc = "done", !.out = Papers(FALSE)]
         [] answer = "429" ->
                IF cl.attempt = Retries
                THEN [heard EXCEPT !.pc = "done", !.out = Throw(MsgRateLimit)]
                ELSE [heard EXCEPT !.pc = "backoff",
                                   !.wake = t + (2 ^ cl.attempt) * BackoffBase]
         [] answer = "error" ->
                IF cl.attempt = Retries
                THEN [heard EXCEPT !.pc = "done",
                         !.out = Throw(IF msg = "" THEN MsgFailedFetch ELSE msg)]
                ELSE [heard EXCEPT !.pc = "backoff",
                                   !.wake = t + RetryDelay * cl.attempt]

\* fetchTrendingPapers when the index has answered its request
fetchTrendingPapers(cl, answer) ==
    LET heard == [cl EXCEPT !.answers = Append(@, answer), !.pc = "done"]
    IN CASE answer = "papers" -> [heard EXCEPT !.out = Papers(TRUE)]
         [] answer = "nodata" -> [heard EXCEPT !.out = Papers(FALSE)]
         [] answer = "429" -> [heard EXCEPT !.out = Throw(MsgRateLimitTrending)]
         [] answer = "error" -> [heard EXCEPT !.out = Papers(FALSE)]

\* the rest of the handler of POST /api/search-papers
searchPapersResponse(out) ==
    IF out.k = "papers"
    THEN [NoResp EXCEPT !.code = 200, !.success = TRUE, !.results = <<out>>]
    ELSE IF MentionsRateLimit(out.msg)
         THEN [NoResp EXCEPT !.code = 429, !.error = MsgRateLimitShort,
                             !.retryAfter = RetryAfter]
         ELSE [NoResp EXCEPT !.code = 500, !.error = MsgFailedSearch]

\* the rest of the handlers of the trending endpoints: what a call threw
\* is caught and becomes the error of its keyword
trendingResponse(calls) ==
    [NoResp EXCEPT !.code = 200, !.success = TRUE,
        !.results = [i \in DOMAIN calls |->
                        IF calls[i].out.k = "papers"
                        THEN [papers |-> calls[i].out.some, error |-> ""]
                        ELSE [papers |-> FALSE, error |-> calls[i].out.msg]]]

BadRequest(msg) == [NoResp EXCEPT !.code = 400, !.error = msg]

\* the answer of a request whose calls are these, if it is due
Respond(endpoint, calls) ==
    IF \E c \in DOMAIN calls : calls[c].pc # "done" THEN NoResp
    ELSE IF endpoint = "search-papers" THEN searchPapersResponse(calls[1].out)
    ELSE trendingResponse(calls)

SearchInit ==
    /\ now = StartTime
    /\ apiKey = FALSE
    /\ reqs = <<>>
    /\ jobs = <<>>
    /\ summarizationJobs = [id \in {} |-> 0]
    /\ tasks = <<>>
    /\ lastPoll = NoPoll
    /\ lastRequestTime = 0
    /\ callers = <<>>
    /\ searches = <<>>
    /\ call = NoCall

\* POST /api/search-papers up to the first await of searchSemanticScholar
PostSearchPapers ==
    /\ Len(searches) < MaxSearches
    /\ \E keywordOk \in BOOLEAN, given \in LimitInputs :
          LET limit == IF given = Undefined THEN Num(DefaultLimit) ELSE given
              rq == [endpoint |-> "search-papers", keywordOk |-> keywordOk,
                     limit |-> given, calls |-> <<>>, resp |-> NoResp]
          IN IF ~keywordOk
             THEN /\ searches' = Append(searches, [rq EXCEPT !.resp = BadRequest(MsgKeyword)])
                  /\ UNCHANGED lastRequestTime
             ELSE IF limit.k # "num" \/ limit.v < 1
             THEN /\ searches' = Append(searches, [rq EXCEPT !.resp = BadRequest(MsgLimit)])
                  /\ UNCHANGED lastRequestTime
             ELSE /\ searches' = Append(searches,
                        [rq EXCEPT !.calls = <<FirstAttempt(limit.v, now, lastRequestTime)>>])
                  /\ lastRequestTime' = Enter(now, lastRequestTime).last
    /\ UNCHANGED <<now, jobVars, callers, call>>

\* POST /api/trending-papers and POST /api/trending-papers-by-keywords up
\* to the first await of each call of fetchTrendingPapers
PostTrendingPapers(endpoint) ==
    /\ Len(searches) < MaxSearches
    /\ \E keywords \in 0..MaxKeywords :
          LET rq == [endpoint |-> endpoint, keywordOk |-> keywords > 0,
                     limit |-> Undefined, calls |-> <<>>, resp |-> NoResp]
          IN IF keywords = 0
             THEN /\ searches' = Append(searches, [rq EXCEPT !.resp = BadRequest(MsgKeywords)])
                  /\ UNCHANGED lastRequestTime
             ELSE /\ searches' = Append(searches,
                        [rq EXCEPT !.calls = StartCalls(keywords, now, lastRequestTime)])
                  /\ lastRequestTime' = Enter(now, lastRequestTime).last
    /\ UNCHANGED <<now, jobVars, callers, call>>

\* the setTimeout of waitForRateLimit fires: the rest of the function, and
\* the caller issues its request
RateLimitTimer(s, c) ==
    /\ searches[s].calls[c].pc = "limit"
    /\ now >= searches[s].calls[c].wake
    /\ lastRequestTime' = now
    /\ searches' = [searches EXCEPT ![s].calls[c].pc = "request"]
    /\ UNCHANGED <<now, jobVars, callers, call>>

\* the search index answers a request, or the request fails: the function
\* runs to its next await or to its end, and the handler answers when the
\* last of its calls has ended
IndexAnswer(s, c) ==
    /\ searches[s].calls[c].pc = "request"
    /\ \E answer \in IndexAnswers, msg \in NetErrors :
          LET rq == searches[s]
              cl == IF rq.endpoint = "search-papers"
                    THEN searchSemanticScholar(rq.calls[c], answer, msg, now)
                    ELSE fetchTrendingPapers(rq.calls[c], answer)
              calls == [rq.calls EXCEPT ![c] = cl]
          IN searches' = [searches EXCEPT ![s].calls = calls,
                                          ![s].resp = Respond(rq.endpoint, calls)]
    /\ UNCHANGED <<now, jobVars, rateVars, call>>

\* the setTimeout before a retry fires: the next attempt of
\* searchSemanticScholar up to its first await
BackoffTimer(s, c) ==
    /\ searches[s].calls[c].pc = "backoff"
    /\ now >= searches[s].calls[c].wake
    /\ searches' = [searches EXCEPT ![s].calls[c] =
                        Attempt([@ EXCEPT !.attempt = @ + 1], now, lastRequestTime)]
    /\ lastRequestTime' = Enter(now, lastRequestTime).last
    /\ UNCHANGED <<now, jobVars, callers, call>>

\* time passes
SearchTick ==
    /\ now < SearchEnd
    /\ now' = now + MIN_REQUEST_INTERVAL
    /\ UNCHANGED <<jobVars, rateVars, searches, call>>

SearchNext ==
    \/ PostSearchPapers
    \/ PostTrendingPapers("trending-papers")
    \/ PostTrendingPapers("trending-papers-by-keywords")
    \/ \E s \in DOMAIN searches : \E c \in DOMAIN searches[s].calls : RateLimitTimer(s, c)
    \/ \E s \in DOMAIN searches : \E c \in DOMAIN searches[s].calls : IndexAnswer(s, c)
    \/ \E s \in DOMAIN searches : \E c \in DOMAIN searches[s].calls : BackoffTimer(s, c)
    \/ SearchTick

SearchSpec == SearchInit /\ [][SearchNext]_vars

\* A timer that is due fires, a request is answered or fails (axios gives
\* up after 15 s), and time passes up to the end of the time followed.
FairSearchSpec ==
    /\ SearchSpec
    /\ WF_vars(\E s \in DOMAIN searches : \E c \in DOMAIN searches[s].calls :
                    RateLimitTimer(s, c))
    /\ WF_vars(\E s \in DOMAIN searches : \E c \in DOMAIN searches[s].calls :
                    IndexAnswer(s, c))
    /\ WF_vars(\E s \in DOMAIN searches : \E c \in DOMAIN searches[s].calls :
                    BackoffTimer(s, c))
    /\ WF_vars(SearchTick)

\* ------------------------------------------------------------------------
\* Properties
\* ------------------------------------------------------------------------

\* C1: the status of a Job object changes only from pending to processing,
\* from processing to done and from processing to failed.
StatusMonotonic ==
    [][\A o \in DOMAIN jobs :
          jobs'[o].status # jobs[o].status =>
              <<jobs[o].status, jobs'[o].status>> \in
                  {<<"pending", "processing">>, <<"processing", "done">>,
                   <<"processing", "failed">>}]_vars

\* a job went all the way to done
SomeJobDone == \E o \in DOMAIN jobs : jobs[o].status = "done"

\* C2: after a poll of an id was answered with a done or failed job, the
\* next poll of that id is answered with the same status, result and error.
\* (Polls change nothing but lastPoll, so if some later poll of the id could
\* differ, the next one could.)
TerminalPollStable ==
    [][(/\ lastPoll.code = 200
        /\ Terminal(lastPoll.job.status)
        /\ lastPoll'.id = lastPoll.id)
       => /\ lastPoll'.code = 200
          /\ lastPoll'.job.status = lastPoll.job.status
          /\ lastPoll'.job.result = lastPoll.job.result
          /\ lastPoll'.job.error = lastPoll.job.error]_vars

\* C3: a done job has a result and no error, a failed job an error and no
\* result.
ResultXorError ==
    \A o \in DOMAIN jobs :
        /\ jobs[o].status = "done" =>
              ~IsNull(jobs[o].result) /\ IsNull(jobs[o].error)
        /\ jobs[o].status = "failed" =>
              ~IsNull(jobs[o].error) /\ IsNull(jobs[o].result)

\* a job failed on an error that carried no message, and another is done
FailedWithoutMessage ==
    /\ \E o \in DOMAIN jobs : jobs[o].status = "failed" /\ jobs[o].error.v = "Error"
    /\ \E o \in DOMAIN jobs : jobs[o].status = "done"

\* C4: every job that was created reaches done or failed.
EveryJobResolves ==
    \A o \in 1..MaxReqs :
        (o \in DOMAIN jobs) ~> (o \in DOMAIN jobs /\ Terminal(jobs[o].status))

\* C5: when the synchronous extraction of a request ends without text, the
\* request is answered with an error and that step changes neither the job
\* objects, nor the map, nor the scheduled executions.
FailedSubmitCreatesNothing ==
    [][\A r \in DOMAIN reqs :
          (reqs[r].pc # "answered" /\ reqs'[r].pc = "answered"
           /\ ~reqs'[r].extracted)
          => /\ reqs'[r].resp.code = 400
             /\ reqs'[r].job = 0
             /\ UNCHANGED <<jobs, summarizationJobs, tasks>>]_vars

\* a request was refused after its fast and its full extraction both failed
RefusedAfterBothFailed ==
    \E r \in DOMAIN reqs :
        /\ reqs[r].pc = "answered" /\ reqs[r].fetches = 2
        /\ reqs[r].resp.code = 400 /\ Len(jobs) > 0

\* C6: a request whose url is not a string beginning with http:// or
\* https:// is answered with the validation error, and no fetch is started
\* and no job created for it.
BadUrlRejectedBeforeFetch ==
    \A r \in DOMAIN reqs :
        ~reqs[r].schemeOk =>
            /\ reqs[r].pc = "answered"
            /\ reqs[r].resp = [code |-> 400, error |-> MsgInvalidBody]
            /\ reqs[r].fetches = 0
            /\ reqs[r].job = 0

\* C7: the jobs that were created have pairwise distinct ids, and each is
\* the job the map holds under its id.
JobIdsDistinct ==
    /\ \A o1, o2 \in DOMAIN jobs : o1 # o2 => jobs[o1].id # jobs[o2].id
    /\ \A o \in DOMAIN jobs :
          jobs[o].id \in DOMAIN summarizationJobs /\ summarizationJobs[jobs[o].id] = o

\* C8: a poll of an id that is no key of the map is answered 404 and
\* changes nothing.
UnknownIdNotFound ==
    [][(lastPoll' # lastPoll /\ lastPoll'.id \notin DOMAIN summarizationJobs)
       => /\ lastPoll'.code = 404
          /\ lastPoll'.error = MsgJobNotFound
          /\ UNCHANGED <<reqs, jobs, summarizationJobs, tasks>>]_vars

\* an unknown id was polled while the map held a job
UnknownPolled == lastPoll.code = 404 /\ DOMAIN summarizationJobs # {}

\* C9: every job has exactly one execution of processJob, queued or
\* started, and the request that created the job was answered 200; every
\* execution is that of a created job.
OneProcessJobPerJob ==
    /\ \A o \in DOMAIN jobs :
          /\ Cardinality({t \in DOMAIN tasks : tasks[t].job = o}) = 1
          /\ \E r \in DOMAIN reqs : reqs[r].job = o /\ reqs[r].resp.code = 200
    /\ \A t \in DOMAIN tasks : tasks[t].job \in DOMAIN jobs

\* two executions of processJob are under way at the same time
TwoJobsInFlight ==
    \E t1, t2 \in DOMAIN tasks :
        t1 # t2 /\ tasks[t1].pc \in Extracting /\ tasks[t2].pc = "summarize"

\* C10: the summarizer is not invoked before an extraction attempt of the
\* job has returned text: not while an attempt runs, and not when the
\* attempts failed.
SummarizerAfterExtraction ==
    \A t \in DOMAIN tasks :
        /\ tasks[t].pc \in {"nextTick"} \cup Extracting => tasks[t].sumCalls = 0
        /\ tasks[t].sumCalls > 0 => tasks[t].extractOk
        /\ tasks[t].pc = "summarize" => tasks[t].sumCalls > 0

\* the summarizer was invoked after the fallback extraction of processJob
SummarizedAfterFallback ==
    \E t \in DOMAIN tasks :
        tasks[t].sumCalls = 1 /\ tasks[t].attempts = 2 /\ tasks[t].pc = "summarize"

\* C11: when a call of waitForRateLimit began after the request of another
\* call was out, its own request goes out no earlier than
\* MIN_REQUEST_INTERVAL after that one.
SequentialCallsSpaced ==
    \A a, b \in DOMAIN callers :
        (callers[b].pc = "sent" /\ a \in callers[b].after)
        => callers[b].sent - callers[a].sent >= MIN_REQUEST_INTERVAL

\* a call that began within the interval after the request before it had
\* to wait, and its request is out
SecondCallWaited ==
    \E a, b \in DOMAIN callers :
        /\ callers[b].pc = "sent" /\ a \in callers[b].after
        /\ callers[b].begun - callers[a].sent < MIN_REQUEST_INTERVAL
        /\ callers[b].sent > callers[b].begun

\* C12: any two requests are MIN_REQUEST_INTERVAL apart or more, whether
\* their calls of waitForRateLimit followed each other or overlapped.
DispatchesSpaced ==
    \A a, b \in Sent :
        a # b => \/ callers[b].sent - callers[a].sent >= MIN_REQUEST_INTERVAL
                 \/ callers[a].sent - callers[b].sent >= MIN_REQUEST_INTERVAL

\* a occurs in the sequence of steps, and b occurs before it
RanBefore(stages, b, a) ==
    \E i, j \in DOMAIN stages : i < j /\ stages[i] = b /\ stages[j] = a

\* the sequences of steps of the calls of fetchArticleText (full
\* mode) and of fetchArticleTextFast (fast mode), started or ended
FullRuns ==
    {reqs[r].fullStages : r \in DOMAIN reqs} \cup {tasks[t].fullStages : t \in DOMAIN tasks}

FastRuns ==
    {reqs[r].fastStages : r \in DOMAIN reqs} \cup {tasks[t].fastStages : t \in DOMAIN tasks}

Ran(stages, a) == \E i \in DOMAIN stages : stages[i] = a

\* C13: in full mode the headless browser is launched only after
\* Readability and the selectors were both tried on the fetched markup.
RenderAfterStaticStrategies ==
    \A stages \in FullRuns :
        Ran(stages, "render") =>
            /\ RanBefore(stages, "readability", "render")
            /\ RanBefore(stages, "selectors", "render")

\* C14: a call of fetchArticleTextFast never launches the headless browser.
FastNeverRenders ==
    \A stages \in FastRuns : ~Ran(stages, "render")

\* a call of fetchArticleTextFast tried Readability and the selectors,
\* failed, and the caller went on to fetchArticleText, which rendered
FastFailedThenFullRendered ==
    \E r \in DOMAIN reqs :
        /\ reqs[r].fastStages = <<"fetch", "type", "readability", "selectors">>
        /\ Ran(reqs[r].fullStages, "render")

\* the response for the url has a content type without 'html'
NotMarkup(url) ==
    url \in DOMAIN Responses /\ ~Includes(Responses[url].contentType, HTML)

FailedFullRuns ==
    {reqs[r].fullStages : r \in {q \in DOMAIN reqs :
        reqs[q].pc = "answered" /\ reqs[q].fullStages # <<>> /\ ~reqs[q].extracted}}
    \cup {tasks[t].fullStages : t \in {u \in DOMAIN tasks : tasks[u].fastStages # <<>>}}

\* C16: a call of fetchArticleText that threw for another reason than the
\* content type had tried Readability, the selectors and the render.
FullFailsOnlyWhenExhausted ==
    \A stages \in FailedFullRuns :
        stages[Len(stages)] # "type" =>
            /\ Ran(stages, "readability")
            /\ Ran(stages, "selectors")
            /\ Ran(stages, "render")

\* C17: a done job has a result that is not the empty text, and a failed
\* job an error message that is not empty.
NoEmptyOutcome ==
    \A o \in DOMAIN jobs :
        /\ jobs[o].status = "done" =>
              jobs[o].result.k = "str" /\ Len(jobs[o].result.v) > 0
        /\ jobs[o].status = "failed" =>
              jobs[o].error.k = "msg" /\ jobs[o].error.v # ""

\* C18: no execution of processJob ends with a rejected promise; when one
\* has returned, its job is done or failed, failed with a message when no
\* extraction gave text or the key is missing; and a failed job leaves the
\* server able to take a poll and, within the bound, a submit.
FailuresRecorded ==
    /\ \A t \in DOMAIN tasks :
          /\ tasks[t].pc # "rejected"
          /\ tasks[t].pc = "returned" =>
                /\ Terminal(jobs[tasks[t].job].status)
                /\ (~tasks[t].extractOk \/ ~apiKey) =>
                      /\ jobs[tasks[t].job].status = "failed"
                      /\ jobs[tasks[t].job].error.k = "msg"
    /\ (QueueEmpty /\ \E o \in DOMAIN jobs : jobs[o].status = "failed") =>
          /\ ENABLED GetStatus
          /\ Len(reqs) < MaxReqs => ENABLED SubmitArrive

\* one job failed in the extraction and one in the summarization, and the
\* failed job was polled
BothKindsOfFailure ==
    /\ \E t \in DOMAIN tasks :
          /\ tasks[t].pc = "returned" /\ ~tasks[t].extractOk
          /\ jobs[tasks[t].job].status = "failed"
    /\ \E t \in DOMAIN tasks :
          /\ tasks[t].pc = "returned" /\ tasks[t].sumCalls = 1
          /\ jobs[tasks[t].job].status = "failed"
    /\ lastPoll.code = 200 /\ lastPoll.job.status = "failed"

\* C19: the updatedAt of a job is never earlier than its createdAt, and no
\* step makes it earlier than it was.
UpdatedAtMonotonic ==
    /\ [](\A o \in DOMAIN jobs : jobs[o].updatedAt >= jobs[o].createdAt)
    /\ [][\A o \in DOMAIN jobs : jobs'[o].updatedAt >= jobs[o].updatedAt]_vars

\* a job that was created in one millisecond ended in a later one
EndedLater ==
    \E o \in DOMAIN jobs :
        Terminal(jobs[o].status) /\ jobs[o].updatedAt > jobs[o].createdAt

\* C20: no step removes an id from the map, and the id a submit answered is
\* in the map ever after: a poll of it is not answered 404.
JobsRetained ==
    /\ [][DOMAIN summarizationJobs \subseteq DOMAIN summarizationJobs']_vars
    /\ [](\A r \in DOMAIN reqs :
            (reqs[r].pc = "answered" /\ reqs[r].resp.code = 200) =>
                /\ reqs[r].resp.jobId \in DOMAIN summarizationJobs
                /\ statusResponse(reqs[r].resp.jobId).code = 200)

\* the map holds two jobs and a poll was answered with a job
TwoJobsKept ==
    /\ Cardinality(DOMAIN summarizationJobs) = 2
    /\ lastPoll.code = 200
    /\ \A r \in DOMAIN reqs : reqs[r].resp.code = 200

\* C21: the step that answers a submit with a job id leaves that job
\* pending and its processJob not started; processJob starts only for a
\* job whose submit was answered; and no later step changes the answer.
ResponseBeforeProcessing ==
    /\ [][\A r \in DOMAIN reqs :
             (reqs[r].pc # "answered" /\ reqs'[r].pc = "answered" /\ reqs'[r].job # 0)
             => /\ jobs'[reqs'[r].job].status = "pending"
                /\ \A t \in DOMAIN tasks' :
                      tasks'[t].job = reqs'[r].job => tasks'[t].pc = "nextTick"]_vars
    /\ [][\A r \in DOMAIN reqs :
             reqs[r].pc = "answered" => reqs'[r] = reqs[r]]_vars
    /\ [](\A t \in DOMAIN tasks :
             tasks[t].pc # "nextTick" =>
                \E r \in DOMAIN reqs :
                    /\ reqs[r].job = tasks[t].job
                    /\ reqs[r].pc = "answered" /\ reqs[r].resp.code = 200)

\* a submit was answered with the id of a job that is still pending, while
\* an earlier job has failed
AnsweredWhilePending ==
    /\ \E r \in DOMAIN reqs :
          /\ reqs[r].pc = "answered" /\ reqs[r].job # 0
          /\ jobs[reqs[r].job].status = "pending"
    /\ \E o \in DOMAIN jobs : jobs[o].status = "failed"

\* C22: summarizeWithOpenRouter is called at most once in an execution of
\* processJob and for at most one execution of a job; the step that ends
\* the call ends processJob, with the job done or failed with a message.
SummarizerOnce ==
    /\ [](\A t \in DOMAIN tasks : tasks[t].sumCalls <= 1)
    /\ [](\A t1, t2 \in DOMAIN tasks :
             (t1 # t2 /\ tasks[t1].job = tasks[t2].job)
             => tasks[t1].sumCalls = 0 \/ tasks[t2].sumCalls = 0)
    /\ [][\A t \in DOMAIN tasks :
             (tasks[t].pc = "summarize" /\ tasks'[t].pc # "summarize")
             => /\ tasks'[t].pc = "returned"
                /\ tasks'[t].sumCalls = 1
                /\ Terminal(jobs'[tasks[t].job].status)
                /\ jobs'[tasks[t].job].status = "failed" =>
                      jobs'[tasks[t].job].error.k = "msg"]_vars

\* the completion service answered without a summary and the job failed
\* after its one call
SummarizerFailedOnce ==
    \E t \in DOMAIN tasks :
        /\ tasks[t].pc = "returned" /\ tasks[t].sumCalls = 1
        /\ jobs[tasks[t].job].status = "failed"
        /\ jobs[tasks[t].job].error.v = MsgNoSummary

\* C26: without the key a submit whose extraction gave text is still
\* answered with a job id and a summary; no request to the completion
\* service is ever under way and no job is done; an execution that got text
\* ends with its job failed on the missing key, found at the one call of
\* summarizeWithOpenRouter.
MissingKeyFoundAtCall ==
    ~apiKey =>
        /\ \A r \in DOMAIN reqs :
              (reqs[r].pc = "answered" /\ reqs[r].extracted) =>
                  /\ reqs[r].resp.code = 200
                  /\ reqs[r].job \in DOMAIN jobs
                  /\ reqs[r].resp.jobId = jobs[reqs[r].job].id
                  /\ reqs[r].resp.fastSummary.k = "str"
        /\ \A t \in DOMAIN tasks :
              /\ tasks[t].pc # "summarize"
              /\ jobs[tasks[t].job].status # "done"
              /\ (tasks[t].pc = "returned" /\ tasks[t].extractOk) =>
                    /\ jobs[tasks[t].job].status = "failed"
                    /\ jobs[tasks[t].job].error = [k |-> "msg", v |-> MsgMissingKey]
                    /\ tasks[t].sumCalls = 1
              /\ jobs[tasks[t].job].error = [k |-> "msg", v |-> MsgMissingKey] =>
                    tasks[t].sumCalls = 1 /\ tasks[t].extractOk

\* without the key a submit was answered with a summary and its job has
\* failed on the missing key
FailedOnMissingKey ==
    /\ ~apiKey
    /\ \E r \in DOMAIN reqs :
          /\ reqs[r].pc = "answered" /\ reqs[r].resp.code = 200
          /\ Len(reqs[r].resp.fastSummary.v) > 0
          /\ jobs[reqs[r].job].status = "failed"
          /\ jobs[reqs[r].job].error.v = MsgMissingKey

\* C29: an execution of processJob calls fetchArticleText first and
\* fetchArticleTextFast exactly when that call threw, so at most two
\* extractions; a job that failed before any call of the summarizer had
\* both extractions fail.
JobFullThenFast ==
    \A t \in DOMAIN tasks :
        /\ tasks[t].attempts <= 2
        /\ tasks[t].attempts =
              (IF tasks[t].fullStages # <<>> THEN 1 ELSE 0)
              + (IF tasks[t].fastStages # <<>> THEN 1 ELSE 0)
        /\ tasks[t].fastStages # <<>> <=> tasks[t].fullRes = "failed"
        /\ tasks[t].fastRes # "" => tasks[t].fastStages # <<>>
        /\ (jobs[tasks[t].job].status = "failed" /\ tasks[t].sumCalls = 0) =>
              tasks[t].fullRes = "failed" /\ tasks[t].fastRes = "failed"
        /\ (tasks[t].pc = "returned" /\ tasks[t].sumCalls = 0) =>
              jobs[tasks[t].job].status = "failed"

\* the full extraction of a job failed, the fast one gave text, and the
\* job is done
FastRescuedJob ==
    \E t \in DOMAIN tasks :
        /\ tasks[t].fullRes = "failed" /\ tasks[t].fastRes = "ok"
        /\ jobs[tasks[t].job].status = "done"

\* C30: a submit with a valid url calls fetchArticleTextFast first and
\* fetchArticleText exactly when that call threw, once; when it is
\* answered, it has created a job exactly when one of the two gave text.
\* A submit with an invalid url calls neither and creates no job.
SubmitFastThenFull ==
    \A r \in DOMAIN reqs :
        /\ reqs[r].fetches <= 2
        /\ reqs[r].fetches =
              (IF reqs[r].fastStages # <<>> THEN 1 ELSE 0)
              + (IF reqs[r].fullStages # <<>> THEN 1 ELSE 0)
        /\ reqs[r].fullStages # <<>> <=> reqs[r].fastRes = "failed"
        /\ reqs[r].fullRes # "" => reqs[r].fullStages # <<>>
        /\ reqs[r].job # 0 => reqs[r].pc = "answered" /\ reqs[r].job \in DOMAIN jobs
        /\ reqs[r].pc = "answered" =>
              (reqs[r].job # 0 <=> (reqs[r].fastRes = "ok" \/ reqs[r].fullRes = "ok"))
        /\ (reqs[r].pc = "answered" /\ reqs[r].fastStages # <<>> /\ reqs[r].job = 0) =>
              reqs[r].fastRes = "failed" /\ reqs[r].fullRes = "failed"

\* a submit whose fast extraction failed got its job from the full one, and
\* another submit was refused for its url
FullRescuedSubmit ==
    /\ \E r \in DOMAIN reqs :
          /\ reqs[r].fastRes = "failed" /\ reqs[r].fullRes = "ok"
          /\ reqs[r].job # 0
    /\ \E r \in DOMAIN reqs : reqs[r].fastStages = <<>>

\* number of runs of terminators in s
TerminatorRuns(s) ==
    Cardinality({i \in 1..Len(s) :
        IsTerminator(s[i]) /\ (i = Len(s) \/ ~IsTerminator(s[i + 1]))})

\* s from its first character that is not a terminator
StripLead(s) ==
    LET first == {i \in 1..Len(s) : ~IsTerminator(s[i])}
    IN IF first = {} THEN <<>>
       ELSE SubSeq(s, CHOOSE i \in first : \A j \in first : i <= j, Len(s))

\* s without the whitespace that starts it or follows a terminator
RECURSIVE Loose(_, _)
Loose(s, i) ==
    IF i > Len(s) THEN <<>>
    ELSE (IF IsWs(s[i]) /\ (i = 1 \/ IsTerminator(s[i - 1])) THEN <<>> ELSE <<s[i]>>)
         \o Loose(s, i + 1)

\* C24: the preview of an extracted text has at most 3 sentences, and they
\* are the first sentences of the text, in order: cut after the 3rd run of
\* terminators that ends a sentence, or the whole text when no sentence of
\* it is ended.
FastSummaryFirstSentences ==
    (call.fn = "extractiveSummary" /\ call.outs # <<>>) =>
        LET out == call.outs[1]
            body == StripLead(call.arg)
            n == TerminatorRuns(body)
        IN /\ TerminatorRuns(out) <= 3
           /\ IF n = 0 THEN out = call.arg
              ELSE /\ StartsWith(Loose(body, 1), Loose(out, 1))
                   /\ TerminatorRuns(out) = (IF n < 3 THEN n ELSE 3)
                   /\ IsTerminator(out[Len(out)])

FourSentencesCut ==
    /\ call.fn = "extractiveSummary"
    /\ call.outs # <<>>
    /\ TerminatorRuns(StripLead(call.arg)) = 4
    /\ TerminatorRuns(call.outs[1]) = 3

\* the text of the content container of a document: of the first selector
\* that finds text
ContainerText(doc) ==
    FirstNonEmpty(doc, <<"article", "main", "#content", ".main-content",
                         ".post-content", ".entry-content">>)

\* C25: a page whose content container holds at least 120 characters is
\* extracted to a text that is not empty and whitespace-normalised, and a
\* second extraction of the page returns the text of the first.
ExtractSucceedsSame ==
    (/\ call.fn \in {"fetchArticleTextFast", "fetchArticleText"}
     /\ Len(Normalize(ContainerText(call.arg.doc))) >= 120) =>
        /\ \A i \in DOMAIN call.outs :
              /\ call.outs[i].ok
              /\ Len(call.outs[i].text) > 0
              /\ Normalize(call.outs[i].text) = call.outs[i].text
        /\ \A i, j \in DOMAIN call.outs : call.outs[i] = call.outs[j]

\* C27: whatever the length of the text, the article text of the prompt is
\* the first min(length, ceiling) characters of the text.
PromptIsPrefix ==
    (call.fn = "promptText" /\ call.outs # <<>>) =>
        LET out == call.outs[1]
        IN /\ Len(out) = (IF Len(call.arg) < PromptChars
                          THEN Len(call.arg) ELSE PromptChars)
           /\ \A i \in 1..Len(out) : out[i] = call.arg[i]

LongTextCut ==
    /\ call.fn = "promptText"
    /\ call.outs # <<>>
    /\ Len(call.arg) > PromptChars
    /\ Len(call.outs[1]) = PromptChars

\* the requests that were answered
Answered == {s \in DOMAIN searches : searches[s].resp.code # 0}

\* the requests one of whose calls was last answered by HTTP 429
Throttled ==
    {s \in Answered : \E c \in DOMAIN searches[s].calls :
        LET answers == searches[s].calls[c].answers
        IN answers # <<>> /\ answers[Len(answers)] = "429"}

\* C23: a request that the search index throttled to the end is answered
\* with a rate-limit error that carries a retry delay, and no call asks the
\* index more than 3 times.
ThrottlingSurfaced ==
    /\ \A s \in Throttled :
          /\ searches[s].resp.code = 429
          /\ ~searches[s].resp.success
          /\ searches[s].resp.retryAfter > 0
    /\ \A s \in DOMAIN searches : \A c \in DOMAIN searches[s].calls :
          Len(searches[s].calls[c].answers) <= 3

\* C28: POST /api/search-papers searches only with a limit from 1 to 20, 10
\* when the body has none; any other limit is answered 400 and no request
\* goes to the search index.
LimitInDocumentedRange ==
    \A s \in DOMAIN searches :
        (searches[s].endpoint = "search-papers" /\ searches[s].keywordOk) =>
            LET limit == searches[s].limit
            IN IF limit = Undefined
               THEN /\ searches[s].calls # <<>>
                    /\ searches[s].calls[1].numResults = 10
               ELSE IF limit.k = "num" /\ limit.v >= 1 /\ limit.v <= 20
               THEN /\ searches[s].calls # <<>>
                    /\ searches[s].calls[1].numResults = limit.v
               ELSE /\ searches[s].resp.code = 400
                    /\ searches[s].calls = <<>>

\* C31: the fast extraction fails for want of text only when the text of
\* Readability, the text of the content container and the text of the whole
\* body are all shorter than 120 characters, whitespace normalised.
FastInsufficientOnlyWhenShort ==
    (call.fn = "fetchArticleTextFast" /\ call.outs # <<>>) =>
        LET out == call.outs[1]
            doc == call.arg.doc
        IN (~out.ok /\ out.msg = MsgInsufficientFast) =>
              /\ IsNull(doc.readability)
                 \/ Len(Normalize(doc.readability.textContent)) < 120
              /\ Len(Normalize(ContainerText(doc))) < 120
              /\ Len(Normalize(doc.bodyAll)) < 120

\* C32: a job that is pending or processing has neither result nor error;
\* the result is written only in the step that makes the job done, the
\* error only in the step that makes it failed.
ResultErrorOnlyAtEnd ==
    /\ [](\A o \in DOMAIN jobs :
            jobs[o].status \in {"pending", "processing"} =>
                IsNull(jobs[o].result) /\ IsNull(jobs[o].error))
    /\ [][\A o \in DOMAIN jobs :
            /\ jobs'[o].result # jobs[o].result =>
                  /\ jobs[o].status = "processing" /\ jobs'[o].status = "done"
                  /\ jobs'[o].error = jobs[o].error
            /\ jobs'[o].error # jobs[o].error =>
                  /\ jobs[o].status = "processing" /\ jobs'[o].status = "failed"
                  /\ jobs'[o].result = jobs[o].result]_vars

\* one job is done and has its result while another is still processing
DoneBesideProcessing ==
    \E o, p \in DOMAIN jobs :
        /\ jobs[o].status = "done" /\ ~IsNull(jobs[o].result)
        /\ jobs[p].status = "processing"

\* C33: a step that changes the status of a job writes the time of the
\* step to updatedAt, and no other step changes updatedAt; createdAt never
\* changes.
StatusWithUpdatedAt ==
    [][\A o \in DOMAIN jobs :
          /\ jobs'[o].status # jobs[o].status => jobs'[o].updatedAt = now
          /\ jobs'[o].updatedAt # jobs[o].updatedAt => jobs'[o].status # jobs[o].status
          /\ jobs'[o].createdAt = jobs[o].createdAt]_vars

\* a job created at 0 became done at 1
DoneStampedLater ==
    \E o \in DOMAIN jobs :
        /\ jobs[o].status = "done"
        /\ jobs[o].createdAt = 0
        /\ jobs[o].updatedAt = 1

\* the text some extraction of the page of a url can return
CanExtract(url) ==
    /\ url \in DOMAIN Responses
    /\ \/ FastByUrl[url].ok
       \/ StaticByUrl[url].kind = "result" /\ StaticByUrl[url].res.ok
       \/ StaticByUrl[url].kind = "render"
          /\ (RenderedByUrl[url].ok \/ FallbackByUrl[url].ok)

\* C34: a step of processJob for a job leaves the registry, the other jobs
\* and the id, url, createdAt and fastSummary of its job as they are, and
\* only such a step changes a job; a done job has a url that gives text,
\* and a job that failed for want of text a url whose page has too little.
ProcessJobFrame ==
    /\ [][\A t \in DOMAIN tasks :
            tasks'[t] # tasks[t] =>
                /\ summarizationJobs' = summarizationJobs
                /\ DOMAIN jobs' = DOMAIN jobs
                /\ \A o \in DOMAIN jobs :
                      IF o = tasks[t].job
                      THEN /\ jobs'[o].id = jobs[o].id
                           /\ jobs'[o].url = jobs[o].url
                           /\ jobs'[o].createdAt = jobs[o].createdAt
                           /\ jobs'[o].fastSummary = jobs[o].fastSummary
                      ELSE jobs'[o] = jobs[o]]_vars
    /\ [][\A o \in DOMAIN jobs :
            jobs'[o] # jobs[o] =>
                \E t \in DOMAIN tasks : tasks[t].job = o /\ tasks'[t] # tasks[t]]_vars
    /\ [](\A o \in DOMAIN jobs :
            /\ jobs[o].status = "done" => CanExtract(jobs[o].url)
            /\ jobs[o].error = [k |-> "msg", v |-> MsgInsufficientFast] =>
                  FastByUrl[jobs[o].url] = Fail(MsgInsufficientFast)
            /\ jobs[o].error # [k |-> "msg", v |-> MsgNotHtml]
            /\ jobs[o].error # [k |-> "msg", v |-> MsgInsufficient])

\* the job of one url is done and the job of another has failed for want
\* of text on its page
TwoUrlsTwoEnds ==
    \E o, p \in DOMAIN jobs :
        /\ jobs[o].url = UrlA /\ jobs[o].status = "done"
        /\ jobs[p].url = UrlB /\ jobs[p].status = "failed"
        /\ jobs[p].error = [k |-> "msg", v |-> MsgInsufficientFast]

\* C35: a poll that finds a job never shows it pending.
NoPollSeesPending ==
    lastPoll.code = 200 => lastPoll.job.status \in {"processing", "done", "failed"}

\* a job was polled while it was processing
PolledProcessing ==
    /\ lastPoll.code = 200
    /\ lastPoll.job.status = "processing"

\* C38: the preview of a submit's answer is not empty, and a poll for the
\* job id of the answer shows that preview.
FastSummaryKept ==
    \A r \in DOMAIN reqs :
        (reqs[r].pc = "answered" /\ reqs[r].resp.code = 200) =>
            /\ reqs[r].resp.fastSummary.k = "str"
            /\ Len(reqs[r].resp.fastSummary.v) > 0
            /\ (lastPoll.code = 200 /\ lastPoll.id = reqs[r].resp.jobId) =>
                  lastPoll.job.fastSummary = reqs[r].resp.fastSummary

\* C36: when a call of fetchArticleText has ended, no headless browser it
\* launched is open.
NoBrowserLeftOpen ==
    call.fn = "fetchArticleText" => call.browsers = 0

\* C37: a call of waitForRateLimit asks for a wait of at most
\* MIN_REQUEST_INTERVAL, however many calls are waiting, and every call
\* whose wait ends within the time that is followed completes.
WaitBoundedAndEnds ==
    /\ [](\A c \in DOMAIN callers :
            /\ callers[c].wake >= callers[c].begun
            /\ callers[c].wake - callers[c].begun <= MIN_REQUEST_INTERVAL)
    /\ \A c \in 1..MaxCallers :
          (c \in DOMAIN callers /\ callers[c].wake <= EndTime)
              ~> (c \in DOMAIN callers /\ callers[c].pc = "sent")

\* two calls that began at the same time waited the whole interval together
\* and both have completed
TwoWaitedTogether ==
    \E a, b \in DOMAIN callers :
        /\ a # b
        /\ callers[a].begun = callers[b].begun
        /\ callers[a].wake - callers[a].begun = MIN_REQUEST_INTERVAL
        /\ callers[b].wake - callers[b].begun = MIN_REQUEST_INTERVAL
        /\ callers[a].pc = "sent" /\ callers[b].pc = "sent"

\* where a call of searchSemanticScholar stands, by the answers it has had
Failures == {"429", "error"}

SearchCallInOrder(cl) ==
    LET n == Len(cl.answers)
    IN /\ n <= Retries /\ cl.attempt <= Retries
       /\ cl.limited = cl.attempt
       /\ n = IF cl.pc \in {"limit", "request"} THEN cl.attempt - 1 ELSE cl.attempt
       /\ \A i \in 1..(n - 1) : cl.answers[i] \in Failures
       /\ cl.pc = "done" <=> (n > 0 /\ (cl.answers[n] \notin Failures \/ n = Retries))
       /\ cl.pc = "done" =>
             IF cl.answers[n] \in Failures THEN cl.out.k = "throw"
             ELSE cl.out.k = "papers"
       /\ cl.pc # "done" => cl.out = Pending

\* C39: searchSemanticScholar makes at most Retries requests, each after a
\* call of waitForRateLimit; it returns a list at the first request that
\* succeeds and makes no request after it, throws at the third failure, and
\* a call whose timers are due within the time followed ends, with a list
\* or an error.
SearchEnds ==
    /\ [](\A s \in DOMAIN searches :
            searches[s].endpoint = "search-papers" =>
                \A c \in DOMAIN searches[s].calls :
                    SearchCallInOrder(searches[s].calls[c]))
    /\ \A s \in 1..MaxSearches :
          (/\ s \in DOMAIN searches
           /\ searches[s].endpoint = "search-papers"
           /\ searches[s].calls # <<>>
           /\ searches[s].calls[1].pc # "done")
            ~> (/\ s \in DOMAIN searches
                /\ searches[s].calls # <<>>
                /\ \/ searches[s].calls[1].pc = "done"
                   \/ searches[s].calls[1].wake > SearchEnd)

\* a call that failed twice and returned a list at its third request, or
\* failed three times and threw
ThirdAttemptEnded ==
    \E s \in DOMAIN searches :
        /\ searches[s].endpoint = "search-papers"
        /\ searches[s].calls # <<>>
        /\ searches[s].calls[1].pc = "done"
        /\ Len(searches[s].calls[1].answers) = Retries
        /\ searches[s].calls[1].limited = Retries
====
